---- MODULE Spec2Model ----
(***************************************************************************)
(* Model of FixedBufferAllocator (src/memory_allocator.py): a fixed-size   *)
(* buffer, the list of live allocations and the list of free blocks, with  *)
(* the operations allocate, free and defragment.  Blocks are pairs         *)
(* <<start, size>>; Python's 0-based list indices are kept and translated  *)
(* to TLA+'s 1-based sequences at each access (list[i] is seq[i + 1]).     *)
(***************************************************************************)
EXTENDS Integers, Sequences, FiniteSets

\* Largest buffer_size passed to the constructor under Spec.
MaxCap == 5

\* The buffer_size passed to the constructor under SpecDeep: the smallest one
\* at which the search of allocate misses a block that is large enough.
DeepCap == 6

LargestCap == IF MaxCap > DeepCap THEN MaxCap ELSE DeepCap

\* Constructor arguments explored: the code accepts any integer, so the
\* non-positive ones are included.
Capacities == (0 - 1) .. MaxCap

\* Arguments of allocate(size) and free(ptr) explored.
Sizes == 0 .. (LargestCap + 1)
Ptrs == (0 - 1) .. LargestCap

VARIABLES
    buffer_size,       \* len(self.buffer)
    allocations,       \* self.allocations, list of (start, size)
    free_blocks,       \* self.free_blocks, list of (start, size)
    op,                \* the last call: "init", "allocate", "free", "defragment"
    arg,               \* its argument (size or ptr)
    raised,            \* the exception it raised, NoError when it returned
    ret,               \* the value allocate returned (NoValue otherwise)
    mid,               \* index of the free block allocate broke out of the search with
    ran_defragment,    \* whether the call ran defragment()
    prev_freed,        \* free(ptr) only: the call before it was a successful free(ptr)
    prev_defragmented, \* defragment() only: the call before it ran defragment()
    rt_stage,          \* progress of offset = allocate(n); free(offset); defragment():
                       \* 1, 2, 3 after each of these calls in a row, 0 otherwise
    rt_allocations,    \* self.allocations before that allocate (<<>> at stage 0)
    rt_free_blocks,    \* self.free_blocks before that allocate (<<>> at stage 0)
    pre_allocations,   \* self.allocations when the call started
    pre_free_blocks    \* self.free_blocks when the call started

vars == <<buffer_size, allocations, free_blocks, op, arg, raised, ret, mid,
          ran_defragment, prev_freed, prev_defragmented, rt_stage,
          rt_allocations, rt_free_blocks, pre_allocations, pre_free_blocks>>

NoValue == 0 - 1

NoError == [type |-> "none", msg |-> ""]
InvalidSize == [type |-> "ValueError", msg |-> "Size must be greater than 0"]
ExceedsCapacity == [type |-> "MemoryError", msg |-> "Requested size exceeds buffer capacity"]
OutOfMemory == [type |-> "MemoryError", msg |-> "Out of memory"]
InvalidPointer == [type |-> "ValueError", msg |-> "Invalid pointer"]

\* Bookkeeping of the call sequence allocate, free, defragment
RoundTripReset ==
    /\ rt_stage' = 0
    /\ rt_allocations' = <<>>
    /\ rt_free_blocks' = <<>>

RoundTripKeep(stage) ==
    /\ rt_stage' = stage
    /\ UNCHANGED <<rt_allocations, rt_free_blocks>>

----------------------------------------------------------------------------
(* Sequence helpers standing for Python list operations. *)

\* list.pop(i), 0-based i
Pop(s, i) == [k \in 1 .. (Len(s) - 1) |-> IF k <= i THEN s[k] ELSE s[k + 1]]

\* list[i] = v, 0-based i
SetAt(s, i, v) == [s EXCEPT ![i + 1] = v]

\* The comparison keyed on the size first.
TupleLessBySize(a, b) == a[2] < b[2] \/ (a[2] = b[2] /\ a[1] < b[1])

\* tuple comparison used by list.sort() on (start, size) pairs
TupleLess(a, b) == a[1] < b[1] \/ (a[1] = b[1] /\ a[2] < b[2])

RECURSIVE InsertSorted(_, _)
InsertSorted(s, x) ==
    IF s = <<>> THEN <<x>>
    ELSE IF TupleLess(x, Head(s)) THEN <<x>> \o s
    ELSE <<Head(s)>> \o InsertSorted(Tail(s), x)

RECURSIVE SortBlocks(_)
SortBlocks(s) ==
    IF s = <<>> THEN <<>>
    ELSE InsertSorted(SortBlocks(SubSeq(s, 1, Len(s) - 1)), s[Len(s)])

----------------------------------------------------------------------------
(* allocate *)

\* The while loop of allocate: the index it breaks with, or NoValue when the
\* loop ends without break (the else branch, which raises MemoryError).
RECURSIVE BinarySearch(_, _, _, _)
BinarySearch(fb, size, left, right) ==
    IF left > right THEN NoValue
    ELSE LET m == (left + right) \div 2
             block_size == fb[m + 1][2]
         IN  IF block_size >= size
             THEN IF m = 0 \/ fb[m][2] < size
                  THEN m
                  ELSE BinarySearch(fb, size, left, m - 1)
             ELSE BinarySearch(fb, size, m + 1, right)

FindBlock(fb, size) == BinarySearch(fb, size, 0, Len(fb) - 1)

\* Carve with the exact-fit block left in the list (no pop).
CarveKeepExact(fb, m, size) ==
    LET start == fb[m + 1][1]
        block_size == fb[m + 1][2]
    IN  IF block_size = size
        THEN fb
        ELSE SetAt(fb, m, <<start + size, block_size - size>>)

\* Carve with the remainder left at the front of the block (start not advanced).
CarveBack(fb, m, size) ==
    LET start == fb[m + 1][1]
        block_size == fb[m + 1][2]
    IN  IF block_size = size
        THEN Pop(fb, m)
        ELSE SetAt(fb, m, <<start, block_size - size>>)

\* Carve with the exact-fit block shrunk to length 0 instead of popped.
CarveNoPop(fb, m, size) ==
    LET start == fb[m + 1][1]
        block_size == fb[m + 1][2]
    IN  SetAt(fb, m, <<start + size, block_size - size>>)

\* Lines 43-47: the free list after carving size units off the front of fb[m].
Carve(fb, m, size) ==
    LET start == fb[m + 1][1]
        block_size == fb[m + 1][2]
    IN  IF block_size = size
        THEN Pop(fb, m)
        ELSE SetAt(fb, m, <<start + size, block_size - size>>)

\* Line 49
Record(allocs, start, size) == Append(allocs, <<start, size>>)

\* Lines 24, 26 and 41: the raise statements of allocate
AllocateFails(size, err) ==
    /\ raised' = err
    /\ ret' = NoValue
    /\ mid' = NoValue
    /\ RoundTripReset
    /\ UNCHANGED <<allocations, free_blocks>>

\* The capacity test with the comparison off by one.
ExceedsBufferLate(size, n) == size > n + 1

\* Line 25
ExceedsBuffer(size, n) == size > n

Allocate(size) ==
    /\ op' = "allocate"
    /\ arg' = size
    /\ ran_defragment' = FALSE
    /\ prev_freed' = FALSE
    /\ prev_defragmented' = FALSE
    /\ pre_allocations' = allocations
    /\ pre_free_blocks' = free_blocks
    /\ UNCHANGED buffer_size
    /\ IF size <= 0 THEN AllocateFails(size, InvalidSize)
       ELSE IF ExceedsBuffer(size, buffer_size) THEN AllocateFails(size, ExceedsCapacity)
       ELSE LET m == FindBlock(free_blocks, size) IN
            IF m = NoValue THEN AllocateFails(size, OutOfMemory)
            ELSE /\ free_blocks' = Carve(free_blocks, m, size)
                 /\ allocations' = Record(allocations, free_blocks[m + 1][1], size)
                 /\ ret' = free_blocks[m + 1][1]
                 /\ mid' = m
                 /\ raised' = NoError
                 /\ rt_stage' = 1
                 /\ rt_allocations' = allocations
                 /\ rt_free_blocks' = free_blocks

----------------------------------------------------------------------------
(* defragment *)

\* MergeScan with the merged block keeping only the first block's size.
RECURSIVE MergeScanDrop(_, _)
MergeScanDrop(fb, i) ==
    IF i < Len(fb) - 1
    THEN LET current == fb[i + 1]
             next_block == fb[i + 2]
         IN  IF current[1] + current[2] = next_block[1]
             THEN MergeScanDrop(Pop(SetAt(fb, i, <<current[1], current[2]>>), i + 1), i)
             ELSE MergeScanDrop(fb, i + 1)
    ELSE fb

\* MergeScan stepping to the next index after a merge as well.
RECURSIVE MergeScanSkip(_, _)
MergeScanSkip(fb, i) ==
    IF i < Len(fb) - 1
    THEN LET current == fb[i + 1]
             next_block == fb[i + 2]
         IN  IF current[1] + current[2] = next_block[1]
             THEN MergeScanSkip(Pop(SetAt(fb, i, <<current[1], current[2] + next_block[2]>>), i + 1), i + 1)
             ELSE MergeScanSkip(fb, i + 1)
    ELSE fb

\* The while loop of defragment from index i on.
RECURSIVE MergeScan(_, _)
MergeScan(fb, i) ==
    IF i < Len(fb) - 1
    THEN LET current == fb[i + 1]
             next_block == fb[i + 2]
         IN  IF current[1] + current[2] = next_block[1]
             THEN MergeScan(Pop(SetAt(fb, i, <<current[1], current[2] + next_block[2]>>), i + 1), i)
             ELSE MergeScan(fb, i + 1)
    ELSE fb

\* defragment() without the sort.
DefragmentedUnsorted(fb) == MergeScan(fb, 0)

\* defragment(): sort, then merge adjacent blocks.
Defragmented(fb) == MergeScan(SortBlocks(fb), 0)

\* The threshold test counting one allocation too many.
DefragmentNeededLate(fb, allocs) == Len(fb) > (Len(allocs) + 1) * 2

\* The threshold test replaced by "always".
DefragmentNeededAlways(fb, allocs) == TRUE

\* _defragment_if_needed(): the threshold test
DefragmentNeeded(fb, allocs) == Len(fb) > Len(allocs) * 2

Defragment ==
    /\ op' = "defragment"
    /\ arg' = NoValue
    /\ raised' = NoError
    /\ ret' = NoValue
    /\ mid' = NoValue
    /\ ran_defragment' = TRUE
    /\ prev_freed' = FALSE
    /\ prev_defragmented' = ran_defragment
    /\ IF rt_stage = 2 THEN RoundTripKeep(3) ELSE RoundTripReset
    /\ pre_allocations' = allocations
    /\ pre_free_blocks' = free_blocks
    /\ free_blocks' = Defragmented(free_blocks)
    /\ UNCHANGED <<buffer_size, allocations>>

----------------------------------------------------------------------------
(* free *)

\* Line 59
ValidPointer(ptr, size) == 0 <= ptr /\ ptr < size

\* The lookup matching any allocation that contains ptr.
FirstAtContaining(allocs, ptr) ==
    IF \E k \in 1 .. Len(allocs) : allocs[k][1] <= ptr /\ ptr < allocs[k][1] + allocs[k][2]
    THEN (CHOOSE k \in 1 .. Len(allocs) :
             /\ allocs[k][1] <= ptr /\ ptr < allocs[k][1] + allocs[k][2]
             /\ \A j \in 1 .. (k - 1) :
                    ~(allocs[j][1] <= ptr /\ ptr < allocs[j][1] + allocs[j][2])) - 1
    ELSE NoValue

\* The for loop of free: 0-based index of the first allocation starting at
\* ptr, NoValue when there is none.
FirstAt(allocs, ptr) ==
    IF \E k \in 1 .. Len(allocs) : allocs[k][1] = ptr
    THEN (CHOOSE k \in 1 .. Len(allocs) :
             /\ allocs[k][1] = ptr
             /\ \A j \in 1 .. (k - 1) : allocs[j][1] # ptr) - 1
    ELSE NoValue

\* The freed block not returned to the free list.
ReleaseNothing(fb, ptr, size) == fb

\* Line 65
Release(fb, ptr, size) == Append(fb, <<ptr, size>>)

\* The failing free dropping the first allocation before it raises.
FreeFailsDirty ==
    /\ raised' = InvalidPointer
    /\ ran_defragment' = FALSE
    /\ RoundTripReset
    /\ allocations' = IF allocations = <<>> THEN allocations ELSE Tail(allocations)
    /\ UNCHANGED free_blocks

\* Lines 60 and 68: raise ValueError("Invalid pointer")
FreeFails ==
    /\ raised' = InvalidPointer
    /\ ran_defragment' = FALSE
    /\ RoundTripReset
    /\ UNCHANGED <<allocations, free_blocks>>

Free(ptr) ==
    /\ op' = "free"
    /\ arg' = ptr
    /\ prev_freed' = (op = "free" /\ raised = NoError /\ arg = ptr)
    /\ prev_defragmented' = FALSE
    /\ ret' = NoValue
    /\ mid' = NoValue
    /\ pre_allocations' = allocations
    /\ pre_free_blocks' = free_blocks
    /\ UNCHANGED buffer_size
    /\ IF ~ValidPointer(ptr, buffer_size) THEN FreeFails
       ELSE LET i == FirstAt(allocations, ptr) IN
            IF i = NoValue THEN FreeFails
            ELSE LET allocs == Pop(allocations, i)
                     fb == Release(free_blocks, ptr, allocations[i + 1][2])
                 IN  /\ allocations' = allocs
                     /\ raised' = NoError
                     /\ IF rt_stage = 1 /\ ptr = ret
                        THEN RoundTripKeep(2)
                        ELSE RoundTripReset
                     /\ ran_defragment' = DefragmentNeeded(fb, allocs)
                     /\ free_blocks' = IF DefragmentNeeded(fb, allocs)
                                       THEN Defragmented(fb)
                                       ELSE fb

----------------------------------------------------------------------------
(* construction and the state machine *)

\* len([None] * n)
BufferLen(n) == IF n < 0 THEN 0 ELSE n

\* __init__(buffer_size = n)
Construct(n) ==
    /\ buffer_size = BufferLen(n)
    /\ allocations = <<>>
    /\ free_blocks = << <<0, n>> >>
    /\ op = "init"
    /\ arg = n
    /\ raised = NoError
    /\ ret = NoValue
    /\ mid = NoValue
    /\ ran_defragment = FALSE
    /\ prev_freed = FALSE
    /\ prev_defragmented = FALSE
    /\ rt_stage = 0
    /\ rt_allocations = <<>>
    /\ rt_free_blocks = <<>>
    /\ pre_allocations = <<>>
    /\ pre_free_blocks = <<>>

Init == \E n \in Capacities : Construct(n)

InitDeep == Construct(DeepCap)

AllocateCall == \E size \in Sizes : Allocate(size)
FreeCall == \E ptr \in Ptrs : Free(ptr)

Next == AllocateCall \/ FreeCall \/ Defragment

Spec == Init /\ [][Next]_vars

\* The same allocator on the one larger buffer.
SpecDeep == InitDeep /\ [][Next]_vars

----------------------------------------------------------------------------
(* Vocabulary of the properties *)

\* The units [start, start + size) of a block
Units(b) == b[1] .. (b[1] + b[2] - 1)

\* The units covered by the blocks of a list
Covered(blocks) == UNION {Units(blocks[k]) : k \in 1 .. Len(blocks)}

PairwiseDisjoint(blocks) ==
    \A i, j \in 1 .. Len(blocks) :
        i # j => Units(blocks[i]) \cap Units(blocks[j]) = {}

ExactCover(allocs, fb, n) ==
    /\ PairwiseDisjoint(allocs \o fb)
    /\ Covered(allocs \o fb) = 0 .. (n - 1)

UniqueOffsets(allocs) ==
    \A i, j \in 1 .. Len(allocs) : i # j => allocs[i][1] # allocs[j][1]

PositiveLengths(blocks) == \A k \in 1 .. Len(blocks) : blocks[k][2] >= 1

\* The positions in fb of the blocks that can hold size units
Sufficient(fb, size) == {k \in 1 .. Len(fb) : fb[k][2] >= size}

AllocateSucceeded == op = "allocate" /\ raised = NoError
FreeSucceeded == op = "free" /\ raised = NoError
CallFailed == op \in {"allocate", "free"} /\ raised # NoError

----------------------------------------------------------------------------
(* C1 *)

\* C1: for a buffer of capacity >= 1, in every reachable state the ranges of
\* all allocations and all free regions are pairwise disjoint and their union
\* is exactly [0, capacity).
C1_Coverage ==
    buffer_size >= 1 => ExactCover(allocations, free_blocks, buffer_size)

\* A successful free with several allocations still live and several free blocks.
C1_Witness ==
    /\ FreeSucceeded
    /\ buffer_size >= 1
    /\ Len(allocations) >= 2
    /\ Len(free_blocks) >= 2

----------------------------------------------------------------------------
(* C2 *)

\* C2: whenever allocate(size) succeeds, the free region the block is carved
\* from has the smallest length among the free regions of length >= size at
\* the time of the call.
C2_BestFit ==
    AllocateSucceeded =>
        \A k \in Sufficient(pre_free_blocks, arg) :
            pre_free_blocks[mid + 1][2] <= pre_free_blocks[k][2]

----------------------------------------------------------------------------
(* C3 *)

\* C3: allocate(size) with 1 <= size <= capacity raises the out-of-memory
\* error if and only if no free region has length >= size.
C3_OutOfMemoryIff ==
    (op = "allocate" /\ 1 <= arg /\ arg <= buffer_size) =>
        ((raised = OutOfMemory) <=> (Sufficient(pre_free_blocks, arg) = {}))

----------------------------------------------------------------------------
(* C4 *)

\* C4: when an allocate or free call fails, the allocation list and the
\* free-region list are the same after the call as before it, and (for a
\* buffer of capacity >= 1) the data-model invariants hold: exact coverage,
\* unique allocation offsets, lengths >= 1.
C4_FailureAtomic ==
    CallFailed =>
        /\ allocations = pre_allocations
        /\ free_blocks = pre_free_blocks
        /\ buffer_size >= 1 =>
              /\ ExactCover(allocations, free_blocks, buffer_size)
              /\ UniqueOffsets(allocations)
              /\ PositiveLengths(allocations \o free_blocks)

\* A failed free of a pointer inside the buffer while blocks are live.
C4_Witness ==
    /\ op = "free"
    /\ raised = InvalidPointer
    /\ ValidPointer(arg, buffer_size)
    /\ Len(allocations) >= 2

----------------------------------------------------------------------------
(* C5 *)

\* C5: free(offset) raises the invalid-pointer error whenever offset is
\* outside [0, capacity) or no live allocation starts exactly at offset,
\* which covers an offset strictly inside a live block and a second
\* free(offset) directly after a successful free(offset).
C5_InvalidPointer ==
    op = "free" =>
        /\ (arg < 0 \/ arg >= buffer_size) => raised = InvalidPointer
        /\ (\A k \in 1 .. Len(pre_allocations) : pre_allocations[k][1] # arg)
              => raised = InvalidPointer
        /\ (\E k \in 1 .. Len(pre_allocations) :
               pre_allocations[k][1] < arg
               /\ arg < pre_allocations[k][1] + pre_allocations[k][2])
              => raised = InvalidPointer
        /\ prev_freed => raised = InvalidPointer

\* A rejected free of an offset strictly inside a live block.
C5_Witness ==
    /\ op = "free"
    /\ raised = InvalidPointer
    /\ \E k \in 1 .. Len(pre_allocations) :
          pre_allocations[k][1] < arg
          /\ arg < pre_allocations[k][1] + pre_allocations[k][2]

----------------------------------------------------------------------------
(* C6 *)

\* C6: no two live allocations have the same offset, and the offset returned
\* by a successful allocate differs from the offsets of all allocations live
\* at that moment.
C6_UniqueOffsets ==
    /\ UniqueOffsets(allocations)
    /\ AllocateSucceeded =>
          \A k \in 1 .. Len(pre_allocations) : pre_allocations[k][1] # ret

\* A successful allocate while two or more blocks were live.
C6_Witness == AllocateSucceeded /\ Len(pre_allocations) >= 2

----------------------------------------------------------------------------
(* C7 *)

\* C7: a successful allocate(size) returns the offset of the chosen free
\* region, adds exactly the allocation (chosen.offset, size), deletes chosen
\* when chosen.length = size and otherwise replaces it by
\* (chosen.offset + size, chosen.length - size); every other free region and
\* every earlier allocation is unchanged.
C7_AllocateEffect ==
    AllocateSucceeded =>
        LET chosen == pre_free_blocks[mid + 1] IN
        /\ mid + 1 \in 1 .. Len(pre_free_blocks)
        /\ chosen[2] >= arg
        /\ ret = chosen[1]
        /\ Len(allocations) = Len(pre_allocations) + 1
        /\ allocations[Len(allocations)] = <<chosen[1], arg>>
        /\ \A k \in 1 .. Len(pre_allocations) : allocations[k] = pre_allocations[k]
        /\ IF chosen[2] = arg
           THEN /\ Len(free_blocks) = Len(pre_free_blocks) - 1
                /\ \A k \in 1 .. Len(free_blocks) :
                      free_blocks[k] = pre_free_blocks[IF k <= mid THEN k ELSE k + 1]
           ELSE /\ Len(free_blocks) = Len(pre_free_blocks)
                /\ free_blocks[mid + 1] = <<chosen[1] + arg, chosen[2] - arg>>
                /\ \A k \in 1 .. Len(free_blocks) :
                      k # mid + 1 => free_blocks[k] = pre_free_blocks[k]

\* A successful allocate that splits one of several free regions while other
\* allocations are live.
C7_Witness ==
    /\ AllocateSucceeded
    /\ Len(pre_free_blocks) >= 2
    /\ Len(pre_allocations) >= 1
    /\ pre_free_blocks[mid + 1][2] > arg

----------------------------------------------------------------------------
(* C8 *)

\* C8: free(offset) with a live allocation (offset, length) succeeds, removes
\* exactly that allocation and leaves the others unchanged; afterwards every
\* unit of [offset, offset + length) is covered by a free region and the
\* units that were free before are still free.
C8_FreeEffect ==
    (op = "free" /\ \E k \in 1 .. Len(pre_allocations) : pre_allocations[k][1] = arg) =>
        /\ raised = NoError
        /\ \E k \in 1 .. Len(pre_allocations) :
              /\ pre_allocations[k][1] = arg
              /\ Len(allocations) = Len(pre_allocations) - 1
              /\ \A j \in 1 .. Len(allocations) :
                    allocations[j] = pre_allocations[IF j < k THEN j ELSE j + 1]
              /\ Units(pre_allocations[k]) \subseteq Covered(free_blocks)
        /\ Covered(pre_free_blocks) \subseteq Covered(free_blocks)

\* A successful free of the second of three or more live allocations.
C8_Witness ==
    /\ FreeSucceeded
    /\ Len(pre_allocations) >= 3
    /\ pre_allocations[2][1] = arg
    /\ pre_free_blocks # <<>>

----------------------------------------------------------------------------
(* C9 *)

\* C9: for a buffer of capacity >= 1, in every reachable state without a live
\* allocation the free-region list is exactly the single region (0, capacity).
C9_EmptyIsWhole ==
    (buffer_size >= 1 /\ allocations = <<>>) =>
        free_blocks = << <<0, buffer_size>> >>

\* The last live allocation was freed while other free regions existed.
C9_Witness ==
    /\ FreeSucceeded
    /\ buffer_size >= 1
    /\ allocations = <<>>
    /\ Len(pre_free_blocks) >= 2

----------------------------------------------------------------------------
(* C10 *)

\* The maximal runs of units of [0, n) that no allocation covers
MaximalFreeRuns(allocs, n) ==
    LET used == Covered(allocs) IN
    {b \in (0 .. (n - 1)) \X (1 .. n) :
        /\ b[1] + b[2] <= n
        /\ Units(b) \cap used = {}
        /\ (b[1] = 0 \/ (b[1] - 1) \in used)
        /\ (b[1] + b[2] = n \/ (b[1] + b[2]) \in used)}

\* C10: immediately after a defragment pass (manual or triggered by free) no
\* two free regions a, b have a.offset + a.length = b.offset; for a buffer of
\* capacity >= 1 the free regions are exactly the maximal runs of
\* unallocated units, one region each.
C10_NoAdjacentAfterDefragment ==
    ran_defragment =>
        /\ \A i, j \in 1 .. Len(free_blocks) :
              i # j => free_blocks[i][1] + free_blocks[i][2] # free_blocks[j][1]
        /\ buffer_size >= 1 =>
              /\ {free_blocks[k] : k \in 1 .. Len(free_blocks)}
                     = MaximalFreeRuns(allocations, buffer_size)
              /\ Cardinality(MaximalFreeRuns(allocations, buffer_size)) = Len(free_blocks)

\* A pass that merged regions and still left two or more apart.
C10_Witness ==
    /\ ran_defragment
    /\ Len(free_blocks) >= 2
    /\ Len(pre_free_blocks) > Len(free_blocks)

----------------------------------------------------------------------------
(* C11 *)

\* C11: defragment() is idempotent: a defragment() call made directly after
\* a defragment pass leaves the free-region list as that pass left it and
\* changes nothing else.
C11_DefragmentIdempotent ==
    (op = "defragment" /\ prev_defragmented) =>
        /\ free_blocks = pre_free_blocks
        /\ allocations = pre_allocations
        /\ raised = NoError

\* A second pass in a row over a list of several free regions.
C11_Witness ==
    /\ op = "defragment"
    /\ prev_defragmented
    /\ Len(free_blocks) >= 2
    /\ Len(allocations) >= 2

----------------------------------------------------------------------------
(* C12 *)

\* C12: after offset = allocate(n); free(offset); defragment() the allocation
\* list is the one before the allocate and the free-region list is the
\* pre-allocation free-region list in defragmented form.
C12_RoundTrip ==
    rt_stage = 3 =>
        /\ allocations = rt_allocations
        /\ free_blocks = Defragmented(rt_free_blocks)
        /\ Covered(free_blocks) = Covered(rt_free_blocks)

\* A round trip started with live allocations and a free list that was not
\* in defragmented form.
C12_Witness ==
    /\ rt_stage = 3
    /\ Len(rt_allocations) >= 1
    /\ Len(rt_free_blocks) >= 2
    /\ rt_free_blocks # free_blocks

----------------------------------------------------------------------------
(* C13 *)

\* C13: allocate(size) with size > capacity always raises the
\* capacity-exceeded error, whatever the free regions are, and that error
\* differs from the out-of-memory error raised when 1 <= size <= capacity and
\* no free region is large enough.
C13_ExceedsVersusExhausted ==
    op = "allocate" =>
        /\ arg > buffer_size => (raised = ExceedsCapacity /\ raised # OutOfMemory)
        /\ raised = ExceedsCapacity => arg > buffer_size
        /\ (1 <= arg /\ arg <= buffer_size /\ Sufficient(pre_free_blocks, arg) = {})
              => (raised = OutOfMemory /\ raised # ExceedsCapacity)

\* A request above the capacity while blocks are live and free regions exist.
C13_Witness ==
    /\ op = "allocate"
    /\ arg > buffer_size
    /\ raised = ExceedsCapacity
    /\ Len(allocations) >= 1
    /\ Len(free_blocks) >= 2

----------------------------------------------------------------------------
(* C14 *)

\* C14: construction with capacity <= 0 fails with the invalid-size error and
\* produces no allocator, so no allocator state with capacity <= 0 exists.
C14_PositiveCapacityOnly ==
    /\ buffer_size >= 1
    /\ op = "init" => (arg >= 1 \/ raised = InvalidSize)

----------------------------------------------------------------------------
(* C15 *)

\* C15: for a buffer of capacity >= 1, every allocation and every free region
\* has length >= 1; an exact-fit allocate removes the chosen free region
\* instead of leaving a zero-length remainder.
C15_PositiveLengths ==
    buffer_size >= 1 =>
        /\ PositiveLengths(allocations)
        /\ PositiveLengths(free_blocks)
        /\ (AllocateSucceeded /\ pre_free_blocks[mid + 1][2] = arg)
              => Len(free_blocks) = Len(pre_free_blocks) - 1

\* An exact-fit allocate out of a list of several free regions.
C15_Witness ==
    /\ AllocateSucceeded
    /\ buffer_size >= 1
    /\ pre_free_blocks[mid + 1][2] = arg
    /\ Len(pre_free_blocks) >= 2

----------------------------------------------------------------------------
(* C16 *)

\* The positions in fb of the smallest blocks that can hold size units
BestFits(fb, size) ==
    {k \in Sufficient(fb, size) :
        \A j \in Sufficient(fb, size) : fb[k][2] <= fb[j][2]}

\* C16: whenever allocate(size) succeeds, the returned offset is the minimum
\* offset among the free regions of minimal length >= size.
C16_TieBreakLowestOffset ==
    AllocateSucceeded =>
        \E k \in BestFits(pre_free_blocks, arg) :
            /\ ret = pre_free_blocks[k][1]
            /\ \A j \in BestFits(pre_free_blocks, arg) :
                  pre_free_blocks[k][1] <= pre_free_blocks[j][1]

----------------------------------------------------------------------------
(* C17 *)

Touching(fb) ==
    \E i, j \in 1 .. Len(fb) : i # j /\ fb[i][1] + fb[i][2] = fb[j][1]

Ascending(fb) ==
    \A k \in 1 .. (Len(fb) - 1) : fb[k][1] < fb[k + 1][1]

\* C17: after removing the allocation and inserting the freed region, a
\* successful free runs a defragmentation pass if and only if
\* count(free_regions) > 2 * count(allocations); when the condition is false
\* the free list is the previous list with the freed region added at the
\* end, not coalesced.
C17_DefragmentTrigger ==
    FreeSucceeded =>
        \E k \in 1 .. Len(pre_allocations) :
            /\ pre_allocations[k][1] = arg
            /\ LET inserted == Append(pre_free_blocks, pre_allocations[k])
                   over == Len(inserted) > 2 * Len(allocations)
               IN  /\ ran_defragment <=> over
                   /\ ~over => free_blocks = inserted
                   /\ over => /\ ~Touching(free_blocks)
                              /\ Ascending(free_blocks)
                              /\ Covered(free_blocks) = Covered(inserted)

\* A successful free below the threshold that left two touching free regions.
C17_Witness ==
    /\ FreeSucceeded
    /\ ~ran_defragment
    /\ Touching(free_blocks)

----------------------------------------------------------------------------
(* C18 *)

\* C18: in every reachable state (each can be the start of an allocate call)
\* the region length is monotonic non-decreasing along the free-region list.
C18_SizeOrdered ==
    \A k \in 1 .. (Len(free_blocks) - 1) :
        free_blocks[k][2] <= free_blocks[k + 1][2]

----------------------------------------------------------------------------
(* C19 *)

\* C19: for a buffer of capacity >= 1, in every reachable state
\* count(free_regions) <= max(1, 2 * count(allocations)).
C19_FreeListBound ==
    buffer_size >= 1 =>
        Len(free_blocks) <= (IF 2 * Len(allocations) > 1
                             THEN 2 * Len(allocations)
                             ELSE 1)

\* A free that crossed the threshold with an allocation still live, and the
\* pass it triggered.
C19_Witness ==
    /\ FreeSucceeded
    /\ buffer_size >= 1
    /\ Len(allocations) >= 1
    /\ Len(pre_free_blocks) + 1 > 2 * Len(allocations)

----------------------------------------------------------------------------
(* C20 *)

RECURSIVE TotalLength(_)
TotalLength(blocks) ==
    IF blocks = <<>> THEN 0 ELSE Head(blocks)[2] + TotalLength(Tail(blocks))

\* C20: defragment() never fails and only regroups free space: the
\* allocation list and the set of free units are unchanged (same total free
\* length), the number of free regions does not grow, and the resulting free
\* list is in ascending offset order.
C20_DefragmentRegroups ==
    op = "defragment" =>
        /\ raised = NoError
        /\ allocations = pre_allocations
        /\ Covered(free_blocks) = Covered(pre_free_blocks)
        /\ TotalLength(free_blocks) = TotalLength(pre_free_blocks)
        /\ Len(free_blocks) <= Len(pre_free_blocks)
        /\ Ascending(free_blocks)

\* A manual pass over a free list that was out of offset order and had
\* regions to merge.
C20_Witness ==
    /\ op = "defragment"
    /\ Len(free_blocks) < Len(pre_free_blocks)
    /\ Len(free_blocks) >= 2
    /\ ~Ascending(pre_free_blocks)

====
